---- MODULE Spec2Model ----
(***************************************************************************)
(* Model of the WhatsApp bot starter: the webhook router                   *)
(* (app/routers/webhook.py), the message handler                           *)
(* (app/services/message_handler.py), the outbound WhatsApp service        *)
(* (app/services/whatsapp.py) and the MongoDB service                      *)
(* (app/services/database.py).                                             *)
(*                                                                         *)
(* JSON values are records tagged by t: "obj" (a dict, f its fields),      *)
(* "list" (items), "str" (s, a tuple of one-character strings so that      *)
(* strip() and lower() are computed), "null" (None).  [t |-> "invalid"]    *)
(* is a request body that is not JSON at all.                              *)
(***************************************************************************)
EXTENDS Integers, Sequences, FiniteSets, TLC

VARIABLES
    pc,        \* per delivery: where its request coroutine is suspended
    body,      \* per delivery: the parsed JSON body of the POST
    resp,      \* per delivery: the HTTP response of the POST
    trace,     \* per delivery: what its handling has done so far, in order
    messages,  \* the messages collection (documents in insertion order)
    now,       \* the wall clock read by datetime.utcnow(), in milliseconds
    call,      \* the last direct call of an endpoint or service method
    users,     \* the users collection (documents in insertion order)
    saving     \* per caller of save_user: where its coroutine is suspended

vars == <<pc, body, resp, trace, messages, now, call, users, saving>>

-----------------------------------------------------------------------------
(* Bounds of the model *)

\* the clock never reads more than MaxTime
MaxTime == 2
\* the longest button list handed to send_buttons
MaxButtonsTried == 4
\* the longest generated text body handed to handle_text_message
MaxTextLen == 3
\* the longest generated X-Hub-Signature-256 header, in tokens
MaxHeaderLen == 4
\* the save_user calls one caller makes
MaxSaves == 2

-----------------------------------------------------------------------------
(* JSON values and the Python operations the code applies to them *)

JNull == [t |-> "null"]
JInvalid == [t |-> "invalid"]
JStr(chars) == [t |-> "str", s |-> chars]
JList(seq) == [t |-> "list", items |-> seq]
JObj(fields) == [t |-> "obj", f |-> fields]
EmptyObj == [t |-> "obj", f |-> <<>>]

IsObj(v) == v.t = "obj"

\* `key in v`: "yes", "no", or "raise" (TypeError: None is not a container).
\* A list or a string of the model never holds the key itself.
PyIn(key, v) ==
    CASE v.t = "obj" -> IF key \in DOMAIN v.f THEN "yes" ELSE "no"
      [] v.t = "list" -> "no"
      [] v.t = "str" -> "no"
      [] OTHER -> "raise"

\* v.get(key, default) of a dict v
PyGet(v, key, default) == IF key \in DOMAIN v.f THEN v.f[key] ELSE default

RECURSIVE SetToSeq(_)
SetToSeq(S) ==
    IF S = {} THEN <<>>
    ELSE LET x == CHOOSE y \in S : TRUE IN <<x>> \o SetToSeq(S \ {x})

\* what `for x in v` iterates: the items of a list, the keys of a dict, the
\* characters of a string; None is not iterable (TypeError).
PyIter(v) ==
    CASE v.t = "list" -> [ok |-> TRUE, items |-> v.items]
      [] v.t = "obj" ->
            [ok |-> TRUE,
             items |-> LET ks == SetToSeq(DOMAIN v.f)
                       IN [i \in 1..Len(ks) |-> JStr(<<ks[i]>>)]]
      [] v.t = "str" ->
            [ok |-> TRUE, items |-> [i \in 1..Len(v.s) |-> JStr(<<v.s[i]>>)]]
      [] OTHER -> [ok |-> FALSE, items |-> <<>>]

-----------------------------------------------------------------------------
(* The router's walk over the envelope: receive_message, webhook.py 51-85 *)

\* one event handed to the message handler: kind "message" goes to
\* process_message, kind "status" to process_status; key is its place in the
\* envelope <<entry index, change index, 0 for messages[] / 1 for statuses[],
\* index in that list>>
Event(kind, obj, e, c, n) ==
    [kind |-> kind, obj |-> obj,
     key |-> <<e, c, IF kind = "message" THEN 0 ELSE 1, n>>]

EventsOf(kind, items, e, c) ==
    [n \in 1..Len(items) |-> Event(kind, items[n], e, c, n)]

\* webhook.py 70-78: the messages loop runs before the statuses loop
OrderInChangeSwapped(msgs, stats) == stats \o msgs
OrderInChange(msgs, stats) == msgs \o stats

\* webhook.py 68-78: the events of one change, and whether the walk over it
\* ran to its end (ok) or raised; the events listed are those reached before
\* the raise
ChangeEvents(change, e, c) ==
    IF ~IsObj(change) THEN [ok |-> FALSE, events |-> <<>>]
    ELSE
    LET value == PyGet(change, "value", EmptyObj)
        inM == PyIn("messages", value)
        inS == PyIn("statuses", value)
        itM == IF inM = "yes"
               THEN PyIter(PyGet(value, "messages", JList(<<>>)))
               ELSE [ok |-> TRUE, items |-> <<>>]
        itS == IF inS = "yes"
               THEN PyIter(PyGet(value, "statuses", JList(<<>>)))
               ELSE [ok |-> TRUE, items |-> <<>>]
        msgs == EventsOf("message", itM.items, e, c)
        stats == EventsOf("status", itS.items, e, c)
    IN  CASE inM = "raise" -> [ok |-> FALSE, events |-> <<>>]
          [] ~itM.ok -> [ok |-> FALSE, events |-> <<>>]
          [] ~itS.ok -> [ok |-> FALSE, events |-> msgs]
          [] OTHER -> [ok |-> TRUE, events |-> OrderInChange(msgs, stats)]

\* webhook.py 67: for change in entry.get("changes", [])
RECURSIVE ChangesFrom(_, _, _)
RECURSIVE ChangesFromSkipping(_, _, _)
ChangesFromSkipping(items, e, c) ==
    IF c > Len(items) THEN [ok |-> TRUE, events |-> <<>>]
    ELSE LET r == ChangeEvents(items[c], e, c)
             rest == ChangesFromSkipping(items, e, c + 1)
         IN  [ok |-> r.ok /\ rest.ok, events |-> r.events \o rest.events]
ChangesFrom(items, e, c) ==
    IF c > Len(items) THEN [ok |-> TRUE, events |-> <<>>]
    ELSE LET r == ChangeEvents(items[c], e, c)
         IN  IF ~r.ok THEN r
             ELSE LET rest == ChangesFrom(items, e, c + 1)
                  IN  [ok |-> rest.ok, events |-> r.events \o rest.events]

EntryEvents(entry, e) ==
    IF ~IsObj(entry) THEN [ok |-> FALSE, events |-> <<>>]
    ELSE LET it == PyIter(PyGet(entry, "changes", JList(<<>>)))
         IN  IF ~it.ok THEN [ok |-> FALSE, events |-> <<>>]
             ELSE ChangesFrom(it.items, e, 1)

\* webhook.py 66: for entry in body.get("entry", [])
RECURSIVE EntriesFrom(_, _)
EntriesFrom(items, e) ==
    IF e > Len(items) THEN [ok |-> TRUE, events |-> <<>>]
    ELSE LET r == EntryEvents(items[e], e)
         IN  IF ~r.ok THEN r
             ELSE LET rest == EntriesFrom(items, e + 1)
                  IN  [ok |-> rest.ok, events |-> r.events \o rest.events]

\* webhook.py 62-64: a body without "entry" is acknowledged at once
NoEntryPlanRaises == [ok |-> FALSE, events |-> <<>>]
NoEntryPlan == [ok |-> TRUE, events |-> <<>>]

\* webhook.py 51-85: the events the router hands to the handler, in the order
\* it does, and whether its walk ends normally (line 80) or in the except
\* clause (lines 82-85)
PlanOf(b) ==
    CASE b.t = "invalid" -> [ok |-> FALSE, events |-> <<>>]
      [] PyIn("entry", b) = "raise" -> [ok |-> FALSE, events |-> <<>>]
      [] PyIn("entry", b) = "no" -> NoEntryPlan
      [] OTHER ->
            LET it == PyIter(PyGet(b, "entry", JList(<<>>)))
            IN  IF ~it.ok THEN [ok |-> FALSE, events |-> <<>>]
                ELSE EntriesFrom(it.items, 1)

\* webhook.py 64, 80 and 85: the three JSONResponse values
NoResponse == [code |-> 0, status |-> "none"]
OkResponse == [code |-> 200, status |-> "ok"]
ErrorResponseAs500 == [code |-> 500, status |-> "error"]
ErrorResponse == [code |-> 200, status |-> "error"]

-----------------------------------------------------------------------------
(* Python strings: str.strip() and str.lower() on tuples of characters *)

UpperLetters ==
    <<"A", "B", "C", "D", "E", "F", "G", "H", "I", "J", "K", "L", "M",
      "N", "O", "P", "Q", "R", "S", "T", "U", "V", "W", "X", "Y", "Z">>
LowerLetters ==
    <<"a", "b", "c", "d", "e", "f", "g", "h", "i", "j", "k", "l", "m",
      "n", "o", "p", "q", "r", "s", "t", "u", "v", "w", "x", "y", "z">>
Whitespace == {" ", "\t", "\n", "\r"}

LowerChar(ch) ==
    IF \E i \in 1..Len(UpperLetters) : UpperLetters[i] = ch
    THEN LowerLetters[CHOOSE i \in 1..Len(UpperLetters) : UpperLetters[i] = ch]
    ELSE ch

PyLower(chars) == [i \in 1..Len(chars) |-> LowerChar(chars[i])]

RECURSIVE LStrip(_)
LStrip(chars) ==
    IF chars # <<>> /\ Head(chars) \in Whitespace THEN LStrip(Tail(chars))
    ELSE chars

RECURSIVE RStrip(_)
RStrip(chars) ==
    IF chars # <<>> /\ chars[Len(chars)] \in Whitespace
    THEN RStrip(SubSeq(chars, 1, Len(chars) - 1))
    ELSE chars

PyStripLeftOnly(chars) == LStrip(chars)
PyStrip(chars) == RStrip(LStrip(chars))

\* the string literals of the code that are compared with JSON strings
S_text == <<"t", "e", "x", "t">>
S_image == <<"i", "m", "a", "g", "e">>
S_document == <<"d", "o", "c", "u", "m", "e", "n", "t">>
S_audio == <<"a", "u", "d", "i", "o">>
S_video == <<"v", "i", "d", "e", "o">>
S_location == <<"l", "o", "c", "a", "t", "i", "o", "n">>
S_interactive == <<"i", "n", "t", "e", "r", "a", "c", "t", "i", "v", "e">>
S_button_reply ==
    <<"b", "u", "t", "t", "o", "n", "_", "r", "e", "p", "l", "y">>
S_list_reply == <<"l", "i", "s", "t", "_", "r", "e", "p", "l", "y">>
S_hello == <<"h", "e", "l", "l", "o">>
S_hi == <<"h", "i">>
S_hey == <<"h", "e", "y">>
S_help == <<"h", "e", "l", "p">>
S_menu == <<"m", "e", "n", "u">>
S_buttons == <<"b", "u", "t", "t", "o", "n", "s">>
S_info == <<"i", "n", "f", "o">>
S_unknown == <<"u", "n", "k", "n", "o", "w", "n">>

-----------------------------------------------------------------------------
(* The outbound service: app/services/whatsapp.py *)

\* an optional str argument left at its default None
PyNone == "<None>"
\* `if x:` for an optional str
Truthy(x) == x # PyNone /\ x # ""

\* a record with one more field
With(r, key, val) == [k \in DOMAIN r \cup {key} |-> IF k = key THEN val ELSE r[k]]

\* whatsapp.py 35-45
TextPayload(to, message, preview_url) ==
    [messaging_product |-> "whatsapp",
     recipient_type |-> "individual",
     to |-> to,
     type |-> "text",
     text |-> [preview_url |-> preview_url, body |-> message]]

\* whatsapp.py 159-160: the only check send_buttons makes on its list
TooManyButtonsOffByOne(buttons) == Len(buttons) > 4
TooManyButtons(buttons) == Len(buttons) > 3

\* whatsapp.py 167-177: the reply buttons, in the order of the argument
ReplyButtons(buttons) ==
    [i \in 1..Len(buttons) |->
        [type |-> "reply",
         reply |-> [id |-> buttons[i].id, title |-> buttons[i].title]]]

\* whatsapp.py 180-183 and 230-233: the optional header and footer
WithHeaderFooter(interactive, header_text, footer_text) ==
    LET h == IF Truthy(header_text)
             THEN With(interactive, "header",
                       [type |-> "text", text |-> header_text])
             ELSE interactive
    IN  IF Truthy(footer_text)
        THEN With(h, "footer", [text |-> footer_text])
        ELSE h

\* whatsapp.py 164-192
ButtonsPayload(to, body_text, buttons, header_text, footer_text) ==
    [messaging_product |-> "whatsapp",
     recipient_type |-> "individual",
     to |-> to,
     type |-> "interactive",
     interactive |->
        WithHeaderFooter(
            [type |-> "button",
             body |-> [text |-> body_text],
             action |-> [buttons |-> ReplyButtons(buttons)]],
            header_text, footer_text)]

\* whatsapp.py 219-242
ListPayload(to, body_text, button_text, sections, header_text, footer_text) ==
    [messaging_product |-> "whatsapp",
     recipient_type |-> "individual",
     to |-> to,
     type |-> "interactive",
     interactive |->
        WithHeaderFooter(
            [type |-> "list",
             body |-> [text |-> body_text],
             action |-> [button |-> button_text, sections |-> sections]],
            header_text, footer_text)]

\* whatsapp.py 295-299
ReadPayload(message_id) ==
    [messaging_product |-> "whatsapp",
     status |-> "read",
     message_id |-> message_id]

\* how one POST to the provider can end: status 200 with a JSON body; a JSON
\* body with another status (line 319-321 raises); a body response.json()
\* cannot parse; no response at all
TransportOutcomes == {"ok", "rejected", "malformed", "network"}

\* whatsapp.py 303-328: one POST; every outcome but "ok" ends in the except
\* clause, which re-raises
SendRequestRetrying(payload, outcome) ==
    [posts |-> IF outcome = "ok"
               THEN <<[payload |-> payload, outcome |-> outcome]>>
               ELSE <<[payload |-> payload, outcome |-> outcome],
                      [payload |-> payload, outcome |-> outcome]>>,
     raised |-> outcome # "ok"]
SendRequest(payload, outcome) ==
    [posts |-> <<[payload |-> payload, outcome |-> outcome]>>,
     raised |-> outcome # "ok"]

\* whatsapp.py 137-194: send_buttons
SendButtons(to, body_text, buttons, header_text, footer_text, outcome) ==
    IF TooManyButtons(buttons)
    THEN [posts |-> <<>>, raised |-> TRUE]
    ELSE SendRequest(
            ButtonsPayload(to, body_text, buttons, header_text, footer_text),
            outcome)

\* whatsapp.py 22-47: send_text_message
SendTextMessage(to, message, preview_url, outcome) ==
    SendRequest(TextPayload(to, message, preview_url), outcome)

\* whatsapp.py 70-76 and 114-120: the media reference of an image or a
\* document: the URL when it is truthy, else the media id when that is,
\* else ValueError (ok is FALSE)
MediaRefIdFirst(url, id) ==
    IF Truthy(id) THEN [ok |-> TRUE, data |-> [id |-> id]]
    ELSE IF Truthy(url) THEN [ok |-> TRUE, data |-> [link |-> url]]
    ELSE [ok |-> FALSE, data |-> [none |-> TRUE]]
MediaRef(url, id) ==
    IF Truthy(url) THEN [ok |-> TRUE, data |-> [link |-> url]]
    ELSE IF Truthy(id) THEN [ok |-> TRUE, data |-> [id |-> id]]
    ELSE [ok |-> FALSE, data |-> [none |-> TRUE]]

\* whatsapp.py 78-79, 122-125: `if caption: image_data["caption"] = caption`
WithIfTruthy(r, key, val) == IF Truthy(val) THEN With(r, key, val) ELSE r

\* whatsapp.py 81-87
ImagePayload(to, image_data) ==
    [messaging_product |-> "whatsapp",
     recipient_type |-> "individual",
     to |-> to,
     type |-> "image",
     image |-> image_data]

\* whatsapp.py 49-89: send_image
SendImage(to, image_url, image_id, caption, outcome) ==
    LET ref == MediaRef(image_url, image_id)
    IN  IF ~ref.ok THEN [posts |-> <<>>, raised |-> TRUE]
        ELSE SendRequest(
                ImagePayload(to, WithIfTruthy(ref.data, "caption", caption)),
                outcome)

\* whatsapp.py 127-133
DocumentPayload(to, document_data) ==
    [messaging_product |-> "whatsapp",
     recipient_type |-> "individual",
     to |-> to,
     type |-> "document",
     document |-> document_data]

\* whatsapp.py 91-135: send_document
SendDocument(to, document_url, document_id, filename, caption, outcome) ==
    LET ref == MediaRef(document_url, document_id)
    IN  IF ~ref.ok THEN [posts |-> <<>>, raised |-> TRUE]
        ELSE SendRequest(
                DocumentPayload(to,
                    WithIfTruthy(WithIfTruthy(ref.data, "filename", filename),
                                 "caption", caption)),
                outcome)

\* whatsapp.py 196-244: send_list
SendList(to, body_text, button_text, sections, header_text, footer_text, outcome) ==
    SendRequest(ListPayload(to, body_text, button_text, sections,
                            header_text, footer_text), outcome)

\* whatsapp.py 267-279: components is a list (JList) or None (JNull);
\* `if components:` adds a list that is not empty
TemplatePayloadNoRecipientType(to, template_name, language_code, components) ==
    [messaging_product |-> "whatsapp",
     to |-> to,
     type |-> "template",
     template |-> [name |-> template_name,
                   language |-> [code |-> language_code]]]
TemplatePayload(to, template_name, language_code, components) ==
    LET template == [name |-> template_name,
                     language |-> [code |-> language_code]]
    IN  [messaging_product |-> "whatsapp",
         recipient_type |-> "individual",
         to |-> to,
         type |-> "template",
         template |-> IF components.t = "list" /\ components.items # <<>>
                      THEN With(template, "components", components.items)
                      ELSE template]

\* whatsapp.py 246-281: send_template
SendTemplate(to, template_name, language_code, components, outcome) ==
    SendRequest(TemplatePayload(to, template_name, language_code, components),
                outcome)

\* whatsapp.py 283-301: mark_as_read
MarkAsReadCall(message_id, outcome) ==
    SendRequest(ReadPayload(message_id), outcome)

-----------------------------------------------------------------------------
(* The message handler: app/services/message_handler.py *)

\* the text of a reply: which literal or f-string of the handler built it,
\* and the value interpolated into it (JNull when there is none)
Msg(fmt, arg) == [fmt |-> fmt, arg |-> arg]

\* message_handler.py 109-131: the sections literal of the "menu" branch
MenuSections ==
    <<[title |-> "Main Menu",
       rows |-> <<[id |-> "option_1", title |-> "Option 1",
                   description |-> "Description for option 1"],
                  [id |-> "option_2", title |-> "Option 2",
                   description |-> "Description for option 2"],
                  [id |-> "option_3", title |-> "Option 3",
                   description |-> "Description for option 3"]>>]>>

\* message_handler.py 137-141: the buttons literal of the "buttons" branch
DemoButtons ==
    <<[id |-> "btn_1", title |-> "Button 1"],
      [id |-> "btn_2", title |-> "Button 2"],
      [id |-> "btn_3", title |-> "Button 3"]>>

SendText(to, fmt, arg) == [kind |-> "text", to |-> to, message |-> Msg(fmt, arg)]
NoSendReplies ==
    [kind |-> "text", to |-> JNull, message |-> Msg("unsupported", JNull)]
NoSend == [kind |-> "none"]
Raises == [kind |-> "raise"]

\* message_handler.py 68-169: the service call handle_text_message makes
HandleText(message, from_number) ==
    LET text_obj == PyGet(message, "text", EmptyObj) IN
    IF ~IsObj(text_obj) THEN Raises
    ELSE
    LET b == PyGet(text_obj, "body", JStr(<<>>)) IN
    IF b.t # "str" THEN Raises
    ELSE
    LET text == PyStrip(b.s)
        text_lower == PyLower(text)
    IN  CASE text_lower \in {S_hello, S_hi, S_hey} ->
                SendText(from_number, "greeting", JNull)
          [] text_lower = S_help -> SendText(from_number, "help", JNull)
          [] text_lower = S_menu -> [kind |-> "list", to |-> from_number]
          [] text_lower = S_buttons -> [kind |-> "buttons", to |-> from_number]
          [] text_lower = S_info -> SendText(from_number, "info", JNull)
          [] OTHER -> SendText(from_number, "echo", JStr(text))

\* message_handler.py 171-181
HandleImage(message, from_number) ==
    IF ~IsObj(PyGet(message, "image", EmptyObj)) THEN Raises
    ELSE SendText(from_number, "image_received", JNull)

\* message_handler.py 183-193
HandleDocument(message, from_number) ==
    LET document == PyGet(message, "document", EmptyObj) IN
    IF ~IsObj(document) THEN Raises
    ELSE SendText(from_number, "document_received",
                  PyGet(document, "filename", JStr(S_unknown)))

\* message_handler.py 213-224
HandleLocation(message, from_number) ==
    LET location == PyGet(message, "location", EmptyObj) IN
    IF ~IsObj(location) THEN Raises
    ELSE SendText(from_number, "location_received",
                  JList(<<PyGet(location, "latitude", JNull),
                          PyGet(location, "longitude", JNull)>>))

\* message_handler.py 226-253
HandleInteractive(message, from_number) ==
    LET interactive == PyGet(message, "interactive", EmptyObj) IN
    IF ~IsObj(interactive) THEN Raises
    ELSE
    LET interactive_type == PyGet(interactive, "type", JNull)
        button_reply == PyGet(interactive, "button_reply", EmptyObj)
        list_reply == PyGet(interactive, "list_reply", EmptyObj)
    IN  CASE interactive_type = JStr(S_button_reply) ->
                IF ~IsObj(button_reply) THEN Raises
                ELSE SendText(from_number, "you_clicked",
                              PyGet(button_reply, "title", JNull))
          [] interactive_type = JStr(S_list_reply) ->
                IF ~IsObj(list_reply) THEN Raises
                ELSE SendText(from_number, "you_selected",
                              PyGet(list_reply, "title", JNull))
          [] OTHER -> NoSend

\* message_handler.py 47-63: the dispatch on the message type
Dispatch(message) ==
    LET message_type == PyGet(message, "type", JNull)
        from_number == PyGet(message, "from", JNull)
    IN  CASE message_type = JStr(S_text) -> HandleText(message, from_number)
          [] message_type = JStr(S_image) -> HandleImage(message, from_number)
          [] message_type = JStr(S_document) ->
                HandleDocument(message, from_number)
          [] message_type = JStr(S_audio) ->
                SendText(from_number, "audio_received", JNull)
          [] message_type = JStr(S_video) ->
                SendText(from_number, "video_received", JNull)
          [] message_type = JStr(S_location) ->
                HandleLocation(message, from_number)
          [] message_type = JStr(S_interactive) ->
                HandleInteractive(message, from_number)
          [] OTHER -> NoSend

\* the service call of a handler: what it POSTs and whether it raises
HandlerCall(intent, outcome) ==
    CASE intent.kind = "text" ->
            SendRequest(TextPayload(intent.to, intent.message, FALSE), outcome)
      [] intent.kind = "list" ->
            SendRequest(
                ListPayload(intent.to, "Select an option from the menu:",
                            "View Options", MenuSections, PyNone, PyNone),
                outcome)
      [] intent.kind = "buttons" ->
            SendButtons(intent.to, "Choose an action:", DemoButtons,
                        "Demo Buttons", "Select one option", outcome)

-----------------------------------------------------------------------------
(* The MongoDB service: app/services/database.py *)

\* a field a document does not have
Absent == [t |-> "absent"]

\* message_handler.py 39-45 and database.py 65-66: the document handed to
\* insert_one
MessageDoc(message, created_at, updated_at) ==
    [message_id |-> PyGet(message, "id", JNull),
     from |-> PyGet(message, "from", JNull),
     type |-> PyGet(message, "type", JNull),
     timestamp |-> PyGet(message, "timestamp", JNull),
     data |-> message,
     created_at |-> created_at,
     updated_at |-> updated_at,
     status |-> Absent,
     status_timestamp |-> Absent]

\* database.py 68: collection.insert_one adds a document, whatever the
\* collection holds
InsertOneLost(collection, doc) == collection
InsertOne(collection, doc) == Append(collection, doc)

\* database.py 114-123: the documents the filter {"message_id": id} matches
Matching(collection, message_id) ==
    {k \in 1..Len(collection) : collection[k].message_id = message_id}

\* database.py 116-122: the $set of update_message_status
SetStatusDropsTimestamp(doc, status, timestamp, updated_at) ==
    [doc EXCEPT !.status = status, !.updated_at = updated_at]
SetStatus(doc, status, timestamp, updated_at) ==
    [doc EXCEPT !.status = status,
                !.status_timestamp = timestamp,
                !.updated_at = updated_at]

\* the coroutines that call save_user; one that is not inside a call has
\* made `calls` calls so far
Callers == {"c1", "c2"}
NoUser == [phone_number |-> "", name |-> ""]
NotSaving == [at |-> "idle", calls |-> 0, user_data |-> NoUser,
              existing_user |-> 0]

\* the user_data dicts handed to save_user
Phones == {"15550001111", "15550002222"}
UserData == [phone_number : Phones, name : {"Ann", "Bo"}]

\* database.py 179: the documents the filter {"phone_number": ...} matches
UsersMatching(collection, phone_number) ==
    {k \in 1..Len(collection) : collection[k].phone_number = phone_number}

\* database.py 192-194: the document insert_one stores for a new user
UserDoc(id, user_data, created_at, updated_at) ==
    [id |-> id,
     phone_number |-> user_data.phone_number,
     name |-> user_data.name,
     created_at |-> created_at,
     updated_at |-> updated_at]

\* database.py 183-187: {"$set": user_data} on an existing document
SetUser(doc, user_data, updated_at) ==
    [doc EXCEPT !.phone_number = user_data.phone_number,
                !.name = user_data.name,
                !.updated_at = updated_at]

\* datetime.utcnow() as MongoDB stores it: the clock does not run backwards
\* between two reads and may not have advanced
ClockReads(t) == {u \in {t, t + 1} : u <= MaxTime}

-----------------------------------------------------------------------------
(* The request bodies the provider's POSTs carry in the model *)

S_m1 == <<"m", "1">>
S_m2 == <<"m", "2">>
S_u1 == <<"u", "1">>
S_ts == <<"1", "7">>
S_read == <<"r", "e", "a", "d">>
S_sticker == <<"s", "t", "i", "c", "k", "e", "r">>

TextMessage(id, chars) ==
    JObj([type |-> JStr(S_text), from |-> JStr(S_u1), id |-> JStr(id),
          timestamp |-> JStr(S_ts), text |-> JObj([body |-> JStr(chars)])])
ImageMessage(id) ==
    JObj([type |-> JStr(S_image), from |-> JStr(S_u1), id |-> JStr(id),
          timestamp |-> JStr(S_ts), image |-> JObj([id |-> JStr(S_m2)])])
StickerMessage(id) ==
    JObj([type |-> JStr(S_sticker), from |-> JStr(S_u1), id |-> JStr(id),
          timestamp |-> JStr(S_ts)])
StatusOf(id) ==
    JObj([id |-> JStr(id), status |-> JStr(S_read), timestamp |-> JStr(S_ts)])

Change(value) == JObj([value |-> value, field |-> JStr(<<"messages">>)])
Entry(changes) == JObj([id |-> JStr(<<"0">>), changes |-> JList(changes)])
Envelope(entries) ==
    JObj([object |-> JStr(<<"whatsapp_business_account">>),
          entry |-> JList(entries)])
OneChange(value) == Envelope(<<Entry(<<Change(value)>>)>>)

\* {"object": ...}: a body without "entry"
PingBody == JObj([object |-> JStr(<<"whatsapp_business_account">>)])
\* one text message "menu"
MenuBody == OneChange(JObj([messages |-> JList(<<TextMessage(S_m1, S_menu)>>)]))
\* the body of tests/test_webhook.py 44-72: one text message "Hello"
HelloBody ==
    OneChange(JObj([messages |->
        JList(<<TextMessage(S_m1, <<"H", "e", "l", "l", "o">>)>>)]))
\* one change with a message that is no object, an image and a status
MixedBody ==
    OneChange(JObj([messages |-> JList(<<JStr(S_m2), ImageMessage(S_m2)>>),
                    statuses |-> JList(<<StatusOf(S_m1)>>)]))
\* "statuses": null after a message, and a second change behind it
BrokenBody ==
    Envelope(<<Entry(<<
        Change(JObj([messages |-> JList(<<StickerMessage(S_m2)>>),
                     statuses |-> JNull])),
        Change(JObj([messages |-> JList(<<TextMessage(S_m1, S_hi)>>)]))>>)>>)
\* the same status twice
StatusBody ==
    OneChange(JObj([statuses |-> JList(<<StatusOf(S_m1), StatusOf(S_m1)>>)]))
\* two entries: a status, then the text message "buttons"
TwoEntryBody ==
    Envelope(<<
        Entry(<<Change(JObj([statuses |-> JList(<<StatusOf(S_m2)>>)]))>>),
        Entry(<<Change(JObj([messages |->
            JList(<<TextMessage(S_m2, S_buttons)>>)]))>>)>>)
\* "changes" is an object where a list is expected
ChangesObjectBody ==
    Envelope(<<JObj([changes |->
        Change(JObj([messages |-> JList(<<TextMessage(S_m1, S_hi)>>)]))])>>)

\* a message of a type the handler does not know, and a status behind it
StickerBody ==
    OneChange(JObj([messages |-> JList(<<StickerMessage(S_m2)>>),
                    statuses |-> JList(<<StatusOf(S_m2)>>)]))

\* the message ids of the bodies
MessageIds == {JStr(S_m1), JStr(S_m2)}

Bodies ==
    {JInvalid, JNull, EmptyObj, PingBody, MenuBody, HelloBody, MixedBody,
     BrokenBody, StatusBody, TwoEntryBody, ChangesObjectBody, StickerBody}

-----------------------------------------------------------------------------
(* POST /webhook: one request coroutine per delivery *)

\* the deliveries in flight; each is handled by its own coroutine
Deliveries == {"d1", "d2"}

DbOutcomes == {"ok", "raise"}

Idle == [at |-> "idle", i |-> 0, step |-> "start"]
NoBody == [t |-> "none"]

\* message_handler.py 65-66 and 272-273, webhook.py 66-85: process_message
\* and process_status swallow what the handling of an event raised, so the
\* router's loops go on to the next event; behind the last one the response
\* is built
AfterEventPropagating(plan, i, raised) ==
    IF i < Len(plan.events) /\ ~raised
    THEN [pc |-> [at |-> "event", i |-> i + 1, step |-> "start"],
          resp |-> NoResponse]
    ELSE [pc |-> [at |-> "done", i |-> i, step |-> "start"],
          resp |-> IF plan.ok /\ ~raised THEN OkResponse ELSE ErrorResponse]
AfterEvent(plan, i, raised) ==
    IF i < Len(plan.events)
    THEN [pc |-> [at |-> "event", i |-> i + 1, step |-> "start"],
          resp |-> NoResponse]
    ELSE [pc |-> [at |-> "done", i |-> i, step |-> "start"],
          resp |-> IF plan.ok THEN OkResponse ELSE ErrorResponse]

\* one thing the handling of event ev did: op is the call awaited, data the
\* payload POSTed or the document written, result how the call ended
Step(ev, op, data, result) ==
    [ev |-> ev, op |-> op, data |-> data, result |-> result]
\* the except clause of process_message / process_status logged an exception
Caught(ev) == Step(ev, "caught", JNull, "raise")
\* the steps of one service call: its POSTs, then the exception it raised
CallSteps(ev, op, r) ==
    [k \in 1..Len(r.posts) |->
        Step(ev, op, r.posts[k].payload, r.posts[k].outcome)]
    \o (IF r.raised THEN <<Caught(ev)>> ELSE <<>>)

Finish(d, i, steps, raised) ==
    LET a == AfterEvent(PlanOf(body[d]), i, raised)
    IN  /\ pc' = [pc EXCEPT ![d] = a.pc]
        /\ resp' = [resp EXCEPT ![d] = a.resp]
        /\ trace' = [trace EXCEPT ![d] = @ \o steps]

CurrentEvent(d) == PlanOf(body[d]).events[pc[d].i]
AtStep(d, kind, step) ==
    /\ pc[d].at = "event"
    /\ pc[d].step = step
    /\ CurrentEvent(d).kind = kind

\* webhook.py 46-64: the POST arrives and its body is parsed
Receive(d, b) ==
    /\ pc[d].at = "idle"
    /\ body' = [body EXCEPT ![d] = b]
    /\ LET a == AfterEvent(PlanOf(b), 0, FALSE)
       IN  /\ pc' = [pc EXCEPT ![d] = a.pc]
           /\ resp' = [resp EXCEPT ![d] = a.resp]
    /\ UNCHANGED <<trace, messages, now, call, users, saving>>

\* message_handler.py 28 and 263: message.get / status.get on a value that
\* is no dict raises inside the try
MalformedEvent(d) ==
    /\ pc[d].at = "event"
    /\ pc[d].step = "start"
    /\ ~IsObj(CurrentEvent(d).obj)
    /\ Finish(d, pc[d].i, <<Caught(pc[d].i)>>, TRUE)
    /\ UNCHANGED <<body, messages, now, call, users, saving>>

\* message_handler.py 28-36: await self.whatsapp.mark_as_read(message_id)
MarkAsRead(d, outcome) ==
    /\ AtStep(d, "message", "start")
    /\ IsObj(CurrentEvent(d).obj)
    /\ LET i == pc[d].i
           r == SendRequest(
                    ReadPayload(PyGet(CurrentEvent(d).obj, "id", JNull)),
                    outcome)
       IN  IF r.raised
           THEN Finish(d, i, CallSteps(i, "mark_as_read", r), TRUE)
           ELSE /\ pc' = [pc EXCEPT ![d].step = "save"]
                /\ trace' = [trace EXCEPT
                                ![d] = @ \o CallSteps(i, "mark_as_read", r)]
                /\ UNCHANGED resp
    /\ UNCHANGED <<body, messages, now, call, users, saving>>

\* message_handler.py 38-63 and database.py 53-74: await
\* self.db.save_message(...), then the dispatch up to the handler's send
SaveMessage(d, db, created_at, updated_at) ==
    /\ AtStep(d, "message", "save")
    /\ created_at \in ClockReads(now)
    /\ updated_at \in ClockReads(created_at)
    /\ now' = updated_at
    /\ LET i == pc[d].i
           message == CurrentEvent(d).obj
           intent == Dispatch(message)
           doc == MessageDoc(message, created_at, updated_at)
           saved == Step(i, "save_message", doc, "ok")
       IN  IF db = "raise"
           THEN /\ messages' = messages
                /\ Finish(d, i, <<Step(i, "save_message", doc, "raise"),
                                  Caught(i)>>, TRUE)
           ELSE /\ messages' = InsertOne(messages, doc)
                /\ CASE intent.kind = "none" ->
                          Finish(d, i, <<saved>>, FALSE)
                     [] intent.kind = "raise" ->
                          Finish(d, i, <<saved, Caught(i)>>, TRUE)
                     [] OTHER ->
                          /\ pc' = [pc EXCEPT ![d].step = "reply"]
                          /\ trace' = [trace EXCEPT ![d] = Append(@, saved)]
                          /\ UNCHANGED resp
    /\ UNCHANGED <<body, call, users, saving>>

\* message_handler.py 68-253: the await of the handler's one service call
Reply(d, outcome) ==
    /\ AtStep(d, "message", "reply")
    /\ LET i == pc[d].i
           r == HandlerCall(Dispatch(CurrentEvent(d).obj), outcome)
       IN  Finish(d, i, CallSteps(i, "reply", r), r.raised)
    /\ UNCHANGED <<body, messages, now, call, users, saving>>

\* message_handler.py 262-273 and database.py 95-132: await
\* self.db.update_message_status(message_id, status_type, timestamp).
\* update_one changes one of the matching documents; modified_count is 1
\* when the document is not what it was.  k is the document chosen, 0 when
\* none matches.
UpdateStatus(d, db, updated_at, k) ==
    /\ AtStep(d, "status", "start")
    /\ IsObj(CurrentEvent(d).obj)
    /\ updated_at \in ClockReads(now)
    /\ now' = updated_at
    /\ LET i == pc[d].i
           status == CurrentEvent(d).obj
           message_id == PyGet(status, "id", JNull)
           matching == Matching(messages, message_id)
           args == [message_id |-> message_id,
                    status |-> PyGet(status, "status", JNull),
                    timestamp |-> PyGet(status, "timestamp", JNull)]
       IN  IF db = "raise"
           THEN /\ k = 0
                /\ messages' = messages
                /\ Finish(d, i, <<Step(i, "update_message_status", args,
                                       "False")>>, FALSE)
           ELSE /\ IF matching = {} THEN k = 0 ELSE k \in matching
                /\ messages' =
                      IF k = 0 THEN messages
                      ELSE [messages EXCEPT ![k] =
                              SetStatus(@, args.status, args.timestamp,
                                        updated_at)]
                /\ Finish(d, i,
                          <<Step(i, "update_message_status", args,
                                 IF messages' # messages
                                 THEN "True" ELSE "False")>>, FALSE)
    /\ UNCHANGED <<body, call, users, saving>>

-----------------------------------------------------------------------------
(* Database.save_user, database.py 164-200: one coroutine per caller *)

\* the call is over: the caller may call again
Saved(c) ==
    saving' = [saving EXCEPT
                 ![c] = [NotSaving EXCEPT !.calls = saving[c].calls + 1]]

\* database.py 174-179: await collection.find_one({"phone_number": ...});
\* k is the document found, 0 for None.  What it raises leaves save_user
\* through the except clause.
FindUser(c, user_data, db, k) ==
    /\ saving[c].at = "idle"
    /\ saving[c].calls < MaxSaves
    /\ LET matching == UsersMatching(users, user_data.phone_number)
       IN  IF db = "raise"
           THEN k = 0 /\ Saved(c)
           ELSE /\ IF matching = {} THEN k = 0 ELSE k \in matching
                /\ saving' = [saving EXCEPT
                                 ![c] = [at |-> "found",
                                         calls |-> saving[c].calls,
                                         user_data |-> user_data,
                                         existing_user |-> k]]
    /\ UNCHANGED <<pc, body, resp, trace, messages, now, call, users>>

\* database.py 181-189: the user was found; await collection.update_one.
\* k is the document it updates, one of those matching now.
UpdateUser(c, db, updated_at, k) ==
    /\ saving[c].at = "found"
    /\ saving[c].existing_user # 0
    /\ updated_at \in ClockReads(now)
    /\ now' = updated_at
    /\ IF db = "raise"
       THEN k = 0 /\ users' = users
       ELSE /\ k \in UsersMatching(users, saving[c].user_data.phone_number)
            /\ users' = [users EXCEPT
                            ![k] = SetUser(@, saving[c].user_data, updated_at)]
    /\ Saved(c)
    /\ UNCHANGED <<pc, body, resp, trace, messages, call>>

\* database.py 190-196: no user was found; await collection.insert_one
InsertUser(c, db, created_at, updated_at) ==
    /\ saving[c].at = "found"
    /\ saving[c].existing_user = 0
    /\ created_at \in ClockReads(now)
    /\ updated_at \in ClockReads(created_at)
    /\ now' = updated_at
    /\ users' = IF db = "raise" THEN users
                ELSE InsertOne(users,
                               UserDoc(Len(users) + 1, saving[c].user_data,
                                       created_at, updated_at))
    /\ Saved(c)
    /\ UNCHANGED <<pc, body, resp, trace, messages, call>>

-----------------------------------------------------------------------------
(* GET /webhook and direct calls of the outbound service *)

\* settings.WEBHOOK_VERIFY_TOKEN, config.py 17
WEBHOOK_VERIFY_TOKEN == "verify-token"

HubModes == {"subscribe", "unsubscribe", ""}
HubTokens == {WEBHOOK_VERIFY_TOKEN, "verify-tokem", ""}
HubChallenges == {"1158201444", "challenge", ""}

\* webhook.py 19-43: verify_webhook
VerifyWebhookTokenFirst(hub_mode, hub_verify_token, hub_challenge) ==
    IF hub_verify_token # WEBHOOK_VERIFY_TOKEN
    THEN [code |-> 403, content |-> "Invalid verify token"]
    ELSE IF hub_mode # "subscribe"
    THEN [code |-> 400, content |-> "Invalid hub.mode"]
    ELSE [code |-> 200, content |-> hub_challenge]
VerifyWebhook(hub_mode, hub_verify_token, hub_challenge) ==
    IF hub_mode # "subscribe"
    THEN [code |-> 400, content |-> "Invalid hub.mode"]
    ELSE IF hub_verify_token # WEBHOOK_VERIFY_TOKEN
    THEN [code |-> 403, content |-> "Invalid verify token"]
    ELSE [code |-> 200, content |-> hub_challenge]

\* settings.WHATSAPP_API_TOKEN, config.py 14
WHATSAPP_API_TOKEN == "api-token"

\* the raw request bodies a signature is checked for
RawBodies == {"{}", "{\"entry\": []}"}

\* webhook.py 109-113: hmac.new(key, payload, hashlib.sha256).hexdigest(), a
\* lower-case hex string that differs whenever the key or the payload does
HmacSha256Hex(key, payload) ==
    CASE key = WHATSAPP_API_TOKEN /\ payload = "{}" -> "5f2c"
      [] key = WHATSAPP_API_TOKEN -> "a91e"
      [] payload = "{}" -> "07bd"
      [] OTHER -> "c440"

\* a character outside ASCII
NonAscii == "e-acute"

\* a header value is None (JNull) or a str (JStr) whose s is a tuple of
\* tokens: "=", an algorithm name, a digest or a character that is not ASCII
SignatureAlphabet ==
    {"=", "sha256", "sha1",
     HmacSha256Hex(WHATSAPP_API_TOKEN, "{}"),
     HmacSha256Hex(WHATSAPP_API_TOKEN, "{\"entry\": []}"),
     HmacSha256Hex("app-secret", "{}"),
     NonAscii}
Signatures ==
    {JNull} \cup
    {JStr(t) : t \in UNION {[1..n -> SignatureAlphabet] : n \in 0..MaxHeaderLen}}

\* webhook.py 104: signature.split("=")
RECURSIVE SplitOn(_, _)
SplitOn(tokens, sep) ==
    IF \A i \in 1..Len(tokens) : tokens[i] # sep THEN <<tokens>>
    ELSE LET i == CHOOSE i \in 1..Len(tokens) :
                    /\ tokens[i] = sep
                    /\ \A j \in 1..(i - 1) : tokens[j] # sep
         IN  <<SubSeq(tokens, 1, i - 1)>>
             \o SplitOn(SubSeq(tokens, i + 1, Len(tokens)), sep)

\* webhook.py 116: hmac.compare_digest(a, b) of two str raises TypeError
\* when one of them holds a character that is not ASCII
CompareDigest(a, b) ==
    IF \E i \in 1..Len(a) : a[i] = NonAscii THEN "raise"
    ELSE IF \E i \in 1..Len(b) : b[i] = NonAscii THEN "raise"
    ELSE IF a = b THEN "True" ELSE "False"

\* what verify_signature hands to its caller: a bool, or an exception
Returns(value) == [value |-> value, raised |-> FALSE]
\* webhook.py 118-120: the except clause logs and returns False
SignatureErrorPropagates == [value |-> FALSE, raised |-> TRUE]
SignatureError == Returns(FALSE)

\* webhook.py 88-120: verify_signature
VerifySignature(payload, signature) ==
    IF signature.t = "null" \/ signature.s = <<>> THEN Returns(FALSE)
    ELSE
    LET parts == SplitOn(signature.s, "=") IN
    IF Len(parts) # 2 THEN SignatureError
    ELSE
    LET hash_type == parts[1]
        hash_value == parts[2]
        expected_signature == <<HmacSha256Hex(WHATSAPP_API_TOKEN, payload)>>
        same == CompareDigest(expected_signature, hash_value)
    IN  IF hash_type # <<"sha256">> THEN Returns(FALSE)
        ELSE IF same = "raise" THEN SignatureError
        ELSE Returns(same = "True")

NoCall == [fn |-> "none"]

\* a GET /webhook with its three query parameters
GetWebhook(hub_mode, hub_verify_token, hub_challenge) ==
    /\ call' = [fn |-> "verify_webhook",
                hub_mode |-> hub_mode,
                hub_verify_token |-> hub_verify_token,
                hub_challenge |-> hub_challenge,
                response |-> VerifyWebhook(hub_mode, hub_verify_token,
                                           hub_challenge)]
    /\ UNCHANGED <<pc, body, resp, trace, messages, now, users, saving>>

\* the buttons a caller of send_buttons may hand over
ButtonChoices ==
    {[id |-> "yes", title |-> "Yes"],
     [id |-> "no", title |-> "No"],
     [id |-> "yes", title |-> "No"]}
ButtonLists ==
    UNION {[1..n -> ButtonChoices] : n \in 0..MaxButtonsTried}
OptionalTexts == {PyNone, "", "Pick one"}

\* a call of WhatsAppService.send_buttons, whatsapp.py 137-194
CallSendButtons(buttons, header_text, outcome) ==
    /\ call' = [fn |-> "send_buttons",
                to |-> "15550001111",
                buttons |-> buttons,
                header_text |-> header_text,
                result |-> SendButtons("15550001111", "Choose", buttons,
                                       header_text, PyNone, outcome)]
    /\ UNCHANGED <<pc, body, resp, trace, messages, now, users, saving>>

\* what a caller may hand over as a URL, a media id, a file name
OptionalUrls == {PyNone, "", "https://example.com/a.png"}
OptionalIds == {PyNone, "", "media-1"}
OptionalNames == {PyNone, "a.pdf"}

\* a call of WhatsAppService.send_text_message, whatsapp.py 22-47
CallSendText(message, preview_url, outcome) ==
    /\ call' = [fn |-> "send_text_message",
                to |-> "15550001111",
                result |-> SendTextMessage("15550001111", message,
                                           preview_url, outcome)]
    /\ UNCHANGED <<pc, body, resp, trace, messages, now, users, saving>>

\* a call of WhatsAppService.send_image, whatsapp.py 49-89
CallSendImage(image_url, image_id, caption, outcome) ==
    /\ call' = [fn |-> "send_image",
                to |-> "15550001111",
                media_url |-> image_url,
                media_id |-> image_id,
                result |-> SendImage("15550001111", image_url, image_id,
                                     caption, outcome)]
    /\ UNCHANGED <<pc, body, resp, trace, messages, now, users, saving>>

\* a call of WhatsAppService.send_document, whatsapp.py 91-135
CallSendDocument(document_url, document_id, filename, caption, outcome) ==
    /\ call' = [fn |-> "send_document",
                to |-> "15550001111",
                media_url |-> document_url,
                media_id |-> document_id,
                result |-> SendDocument("15550001111", document_url,
                                        document_id, filename, caption,
                                        outcome)]
    /\ UNCHANGED <<pc, body, resp, trace, messages, now, users, saving>>

\* the components a caller of send_template may hand over
TemplateComponents ==
    {JNull, JList(<<>>), JList(<<[type |-> "body", parameters |-> <<>>]>>)}
LanguageCodes == {"en_US", "pt_BR"}

\* a call of WhatsAppService.send_list, whatsapp.py 196-244
CallSendList(header_text, footer_text, outcome) ==
    /\ call' = [fn |-> "send_list",
                to |-> "15550001111",
                result |-> SendList("15550001111", "Select", "View",
                                    MenuSections, header_text, footer_text,
                                    outcome)]
    /\ UNCHANGED <<pc, body, resp, trace, messages, now, users, saving>>

\* a call of WhatsAppService.send_template, whatsapp.py 246-281
CallSendTemplate(language_code, components, outcome) ==
    /\ call' = [fn |-> "send_template",
                to |-> "15550001111",
                result |-> SendTemplate("15550001111", "hello_world",
                                        language_code, components, outcome)]
    /\ UNCHANGED <<pc, body, resp, trace, messages, now, users, saving>>

\* a call of WhatsAppService.mark_as_read, whatsapp.py 283-301
CallMarkAsRead(message_id, outcome) ==
    /\ call' = [fn |-> "mark_as_read",
                message_id |-> message_id,
                result |-> MarkAsReadCall(message_id, outcome)]
    /\ UNCHANGED <<pc, body, resp, trace, messages, now, users, saving>>

\* the text bodies handed to handle_text_message: every string of up to
\* MaxTextLen characters of TextAlphabet, and some longer ones
TextAlphabet == {" ", "h", "H", "i", "I"}
NamedTexts ==
    {S_hello, S_hey, S_help, S_menu, S_buttons, S_info,
     <<"H", "E", "L", "L", "O">>,
     <<" ", "H", "e", "l", "l", "o", " ", " ">>,
     <<"\t", "H", "e", "Y", "\n">>,
     <<"H", "e", "l", "p", "\r", "\n">>,
     <<"M", "E", "N", "U">>,
     <<" ", "B", "u", "t", "t", "o", "n", "s">>,
     <<"i", "n", "f", "o", " ">>,
     <<"h", "e", "l", "l", "o", " ", "h", "i">>,
     <<"h", "e", " ", "y">>,
     <<"m", "e", "n", "u", "s">>,
     <<"h", "i", "!">>}
TextBodies ==
    NamedTexts \cup UNION {[1..n -> TextAlphabet] : n \in 0..MaxTextLen}

\* a call of MessageHandler.handle_text_message, message_handler.py 68-169,
\* with a text message of the given body
CallHandleText(chars, outcome) ==
    /\ call' = LET intent == HandleText(TextMessage(S_m1, chars), JStr(S_u1))
               IN  [fn |-> "handle_text_message",
                    text |-> chars,
                    intent |-> intent,
                    result |-> HandlerCall(intent, outcome)]
    /\ UNCHANGED <<pc, body, resp, trace, messages, now, users, saving>>

\* a call of verify_signature, webhook.py 88-120
CallVerifySignature(payload, signature) ==
    /\ call' = [fn |-> "verify_signature",
                payload |-> payload,
                signature |-> signature,
                result |-> VerifySignature(payload, signature)]
    /\ UNCHANGED <<pc, body, resp, trace, messages, now, users, saving>>

-----------------------------------------------------------------------------
(* Specifications *)

Init ==
    /\ pc = [d \in Deliveries |-> Idle]
    /\ body = [d \in Deliveries |-> NoBody]
    /\ resp = [d \in Deliveries |-> NoResponse]
    /\ trace = [d \in Deliveries |-> <<>>]
    /\ messages = <<>>
    /\ now = 0
    /\ call = NoCall
    /\ users = <<>>
    /\ saving = [c \in Callers |-> NotSaving]

\* the webhook deliveries, handled concurrently
Next ==
    \E d \in Deliveries :
        \/ \E b \in Bodies : Receive(d, b)
        \/ MalformedEvent(d)
        \/ \E outcome \in TransportOutcomes : MarkAsRead(d, outcome)
        \/ \E db \in DbOutcomes, t1, t2 \in 0..MaxTime :
                SaveMessage(d, db, t1, t2)
        \/ \E outcome \in TransportOutcomes : Reply(d, outcome)
        \/ \E db \in DbOutcomes, t \in 0..MaxTime, k \in 0..Len(messages) :
                UpdateStatus(d, db, t, k)

Spec == Init /\ [][Next]_vars

\* the verification endpoint and the outbound service, called directly
NextApi ==
    \/ \E m \in HubModes, t \in HubTokens, c \in HubChallenges :
            GetWebhook(m, t, c)
    \/ \E buttons \in ButtonLists, h \in OptionalTexts,
          outcome \in TransportOutcomes :
            CallSendButtons(buttons, h, outcome)

SpecApi == Init /\ [][NextApi]_vars

\* one call of a send method, of handle_text_message or of verify_signature
NextService ==
    \/ /\ call = NoCall
       /\ \E buttons \in ButtonLists, h \in OptionalTexts,
             outcome \in TransportOutcomes :
               CallSendButtons(buttons, h, outcome)
    \/ /\ call = NoCall
       /\ \E message \in OptionalTexts \ {PyNone}, preview_url \in BOOLEAN,
             outcome \in TransportOutcomes :
               CallSendText(message, preview_url, outcome)
    \/ /\ call = NoCall
       /\ \E u \in OptionalUrls, i \in OptionalIds, caption \in OptionalTexts,
             outcome \in TransportOutcomes :
               CallSendImage(u, i, caption, outcome)
    \/ /\ call = NoCall
       /\ \E u \in OptionalUrls, i \in OptionalIds, f \in OptionalNames,
             caption \in OptionalTexts, outcome \in TransportOutcomes :
               CallSendDocument(u, i, f, caption, outcome)
    \/ /\ call = NoCall
       /\ \E h, f \in OptionalTexts, outcome \in TransportOutcomes :
               CallSendList(h, f, outcome)
    \/ /\ call = NoCall
       /\ \E l \in LanguageCodes, components \in TemplateComponents,
             outcome \in TransportOutcomes :
               CallSendTemplate(l, components, outcome)
    \/ /\ call = NoCall
       /\ \E id \in MessageIds, outcome \in TransportOutcomes :
               CallMarkAsRead(id, outcome)
    \/ /\ call = NoCall
       /\ \E chars \in TextBodies, outcome \in TransportOutcomes :
               CallHandleText(chars, outcome)
    \/ /\ call = NoCall
       /\ \E payload \in RawBodies, signature \in Signatures :
               CallVerifySignature(payload, signature)

SpecService == Init /\ [][NextService]_vars

\* the callers of save_user, running concurrently
NextUsers ==
    \E c \in Callers :
        \/ \E user_data \in UserData, db \in DbOutcomes, k \in 0..Len(users) :
                FindUser(c, user_data, db, k)
        \/ \E db \in DbOutcomes, t \in 0..MaxTime, k \in 0..Len(users) :
                UpdateUser(c, db, t, k)
        \/ \E db \in DbOutcomes, t1, t2 \in 0..MaxTime :
                InsertUser(c, db, t1, t2)

SpecUsers == Init /\ [][NextUsers]_vars

-----------------------------------------------------------------------------
(* What the properties below speak about *)

Done(d) == pc[d].at = "done"
Plan(d) == PlanOf(body[d])
StepsOf(d) == 1..Len(trace[d])
\* the steps that are POSTs to the provider
IsPost(s) == s.op \in {"mark_as_read", "reply"}
Failed(d) == \E k \in StepsOf(d) : trace[d][k].op = "caught"
\* the handling of event i of delivery d raised
EventFailed(d, i) ==
    \E k \in StepsOf(d) : trace[d][k].ev = i /\ trace[d][k].op = "caught"
\* process_message / process_status was invoked on event i of delivery d
EventProcessed(d, i) == \E k \in StepsOf(d) : trace[d][k].ev = i

-----------------------------------------------------------------------------
\* C1: every response to a POST /webhook has status 200, whatever the body
\* is and whichever call failed while the delivery was handled; a delivery
\* that has been handled to its end has a response.
C1_PostAlways200 ==
    \A d \in Deliveries :
        /\ Done(d) => resp[d] # NoResponse
        /\ resp[d] # NoResponse => resp[d].code = 200

\* C1 witness: one delivery whose body was not JSON and one in which
\* save_message raised have both been answered.
C1_Witness ==
    \E d, e \in Deliveries :
        /\ Done(d) /\ body[d] = JInvalid /\ resp[d].code = 200
        /\ Done(e) /\ resp[e].code = 200
        /\ \E k \in StepsOf(e) :
              trace[e][k].op = "save_message" /\ trace[e][k].result = "raise"

\* C2: when a delivery has been handled to its end, every event the router
\* reached in the envelope has been handed to process_message or
\* process_status, also those behind an event whose handling raised.
C2_SiblingsProcessed ==
    \A d \in Deliveries :
        Done(d) => \A j \in 1..Len(Plan(d).events) : EventProcessed(d, j)

\* C2 witness: a finished delivery in which the handling of one event raised
\* and a later event was processed.
C2_Witness ==
    \E d \in Deliveries :
        /\ Done(d)
        /\ \E i, j \in 1..Len(Plan(d).events) :
              i < j /\ EventFailed(d, i) /\ EventProcessed(d, j)

\* the List payload of the "menu" branch: one section of three rows with the
\* ids option_1, option_2, option_3
IsMenuList(payload) ==
    /\ "interactive" \in DOMAIN payload
    /\ payload.interactive.type = "list"
    /\ Len(payload.interactive.action.sections) = 1
    /\ LET rows == payload.interactive.action.sections[1].rows
       IN  /\ Len(rows) = 3
           /\ rows[1].id = "option_1"
           /\ rows[2].id = "option_2"
           /\ rows[3].id = "option_3"
ListSteps(d) ==
    {k \in StepsOf(d) :
        /\ IsPost(trace[d][k])
        /\ "interactive" \in DOMAIN trace[d][k].data
        /\ trace[d][k].data.interactive.type = "list"}

\* C3: a delivery of the single text message "menu" that has been handled
\* to its end has produced exactly one List payload, with one section of
\* three rows option_1..option_3, and its response is 200 {"status": "ok"},
\* whether or not the transport calls failed.
C3_MenuProducesList ==
    \A d \in Deliveries :
        Done(d) /\ body[d] = MenuBody =>
            /\ resp[d] = OkResponse
            /\ Cardinality(ListSteps(d)) = 1
            /\ \A k \in ListSteps(d) : IsMenuList(trace[d][k].data)

\* the successful save_message calls for message id, over all deliveries
SavesOf(id) ==
    {x \in UNION {{d} \X StepsOf(d) : d \in Deliveries} :
        /\ trace[x[1]][x[2]].op = "save_message"
        /\ trace[x[1]][x[2]].result = "ok"
        /\ trace[x[1]][x[2]].data.message_id = id}

\* C4: once save_message has returned twice for the same message id, the
\* store holds exactly one document with that id, created_at being the value
\* of the first save and updated_at the value of the second.
C4_SaveIsUpsert ==
    \A id \in MessageIds :
        Cardinality(SavesOf(id)) = 2 =>
            /\ Cardinality(Matching(messages, id)) = 1
            /\ \A k \in Matching(messages, id) :
                  \A x \in SavesOf(id) :
                      /\ messages[k].created_at
                            <= trace[x[1]][x[2]].data.created_at
                      /\ messages[k].updated_at
                            >= trace[x[1]][x[2]].data.updated_at

\* C5: when two deliveries that carry the same message id have both been
\* handled to their end without any call failing, the store holds exactly
\* one document with that id.
C5_RedeliveryIdempotent ==
    (/\ \A d \in Deliveries :
            Done(d) /\ body[d] \in {MenuBody, HelloBody} /\ ~Failed(d))
    => Cardinality(Matching(messages, JStr(S_m1))) = 1

\* the step just taken was an update_message_status call of delivery d
UpdateStepOf(d) ==
    /\ Len(trace'[d]) = Len(trace[d]) + 1
    /\ trace'[d][Len(trace'[d])].op = "update_message_status"
LastStep(d) == trace[d][Len(trace[d])]
\* document k carries the status and status timestamp of the update u, and
\* nothing else of the store differs from before
OnlyStatusOfChanged(k, u) ==
    /\ Len(messages') = Len(messages)
    /\ \A j \in 1..Len(messages) : j # k => messages'[j] = messages[j]
    /\ messages'[k].status = u.status
    /\ messages'[k].status_timestamp = u.timestamp
    /\ messages'[k].message_id = messages[k].message_id
    /\ messages'[k].data = messages[k].data
    /\ messages'[k].created_at = messages[k].created_at
\* the call raised nothing into process_status and the delivery, if this was
\* its last event, is acknowledged
StatusAcknowledged(d) ==
    /\ ~(EventFailed(d, pc[d].i))'
    /\ Done(d)' => resp'[d] = OkResponse \/ resp'[d] = ErrorResponse

\* C6 as stated: a status update that matches no document returns False and
\* changes nothing; one that matches returns True and every document with
\* that message id then carries the update's status and status timestamp.
C6_StatusUpdateAsStated ==
    [][\A d \in Deliveries :
        UpdateStepOf(d) =>
            LET u == LastStep(d)'
                matching == Matching(messages, u.data.message_id)
            IN  /\ StatusAcknowledged(d)
                /\ matching = {} =>
                      u.result = "False" /\ messages' = messages
                /\ matching # {} =>
                      /\ u.result = "True"
                      /\ \A k \in matching :
                            /\ messages'[k].status = u.data.status
                            /\ messages'[k].status_timestamp
                                  = u.data.timestamp]_vars

\* C6 as amended: a status update that matches no document returns False,
\* changes nothing and raises nothing.  One that matches either returns True,
\* and then exactly one matching document has taken the update's status and
\* status timestamp while the rest of the store is as before, or returns
\* False and leaves the store as it was.
C6_StatusUpdate ==
    [][\A d \in Deliveries :
        UpdateStepOf(d) =>
            LET u == LastStep(d)'
                matching == Matching(messages, u.data.message_id)
            IN  /\ StatusAcknowledged(d)
                /\ matching = {} =>
                      u.result = "False" /\ messages' = messages
                /\ matching # {} =>
                      \/ /\ u.result = "True"
                         /\ messages' # messages
                         /\ \E k \in matching : OnlyStatusOfChanged(k, u.data)
                      \/ /\ u.result = "False"
                         /\ messages' = messages]_vars

\* C6 witness: one status update found no document and returned False, and
\* another found one, set its status and returned True.
C6_Witness ==
    \E d, e \in Deliveries :
        /\ \E k \in StepsOf(d) :
              /\ trace[d][k].op = "update_message_status"
              /\ trace[d][k].result = "False"
              /\ Matching(messages, trace[d][k].data.message_id) = {}
        /\ \E k \in StepsOf(e) :
              /\ trace[e][k].op = "update_message_status"
              /\ trace[e][k].result = "True"
              /\ \E j \in Matching(messages, trace[e][k].data.message_id) :
                    messages[j].status = trace[e][k].data.status

\* C7: GET /webhook answers 200 with the challenge as its body exactly when
\* hub.mode is "subscribe" and hub.verify_token is the configured token; 400
\* whenever hub.mode is not "subscribe"; 403 when hub.mode is "subscribe" and
\* the token differs.
C7_Verification ==
    call.fn = "verify_webhook" =>
        LET good_mode == call.hub_mode = "subscribe"
            good_token == call.hub_verify_token = WEBHOOK_VERIFY_TOKEN
        IN  /\ (call.response.code = 200
                    /\ call.response.content = call.hub_challenge)
                <=> (good_mode /\ good_token)
            /\ ~good_mode => call.response.code = 400
            /\ good_mode /\ ~good_token => call.response.code = 403

\* C7 witness: a request with another mode and a wrong token was answered.
C7_Witness ==
    /\ call.fn = "verify_webhook"
    /\ call.hub_mode = "unsubscribe"
    /\ call.hub_verify_token # WEBHOOK_VERIFY_TOKEN
    /\ call.response.code = 400

\* C8: a delivery whose body is an object without the "entry" key is
\* answered 200 {"status": "ok"} at once: its handling POSTs nothing and
\* writes nothing.
C8_NoEntryIsEmpty ==
    \A d \in Deliveries :
        body[d].t = "obj" /\ "entry" \notin DOMAIN body[d].f =>
            /\ Done(d)
            /\ trace[d] = <<>>
            /\ resp[d] = OkResponse

\* C8 witness: the bodies {} and {"object": ...} have been delivered.
C8_Witness ==
    \E d, e \in Deliveries :
        /\ body[d] = EmptyObj /\ Done(d)
        /\ body[e] = PingBody /\ Done(e)

KeyLess(a, b) ==
    \E n \in 1..4 : a[n] < b[n] /\ \A m \in 1..(n - 1) : a[m] = b[m]
\* the item of body b at the place key names
ItemAt(b, key) ==
    b.f.entry.items[key[1]].f.changes.items[key[2]].f.value
        .f[IF key[3] = 0 THEN "messages" ELSE "statuses"].items[key[4]]

\* C9: within a delivery the steps of one event are never followed by a step
\* of an earlier one, and the events are handled in the order entry, change,
\* messages before statuses, place in the list; each is the item of the
\* envelope at that place, and none before the current one was left out.
C9_EncounterOrder ==
    \A d \in Deliveries :
        /\ \A k1, k2 \in StepsOf(d) :
              /\ k1 < k2 => trace[d][k1].ev <= trace[d][k2].ev
              /\ trace[d][k1].ev < trace[d][k2].ev =>
                    KeyLess(Plan(d).events[trace[d][k1].ev].key,
                            Plan(d).events[trace[d][k2].ev].key)
        /\ \A k \in StepsOf(d) :
              LET ev == Plan(d).events[trace[d][k].ev]
              IN  /\ ev.obj = ItemAt(body[d], ev.key)
                  /\ ev.kind = "message" <=> ev.key[3] = 0
                  /\ trace[d][k].ev <= pc[d].i
        /\ pc[d].at # "idle" =>
              \A j \in 1..(pc[d].i - 1) : EventProcessed(d, j)

\* C9 witness: the delivery with a malformed message, an image and a status
\* in one change has replied to the image and then updated the status.
C9_Witness ==
    \E d \in Deliveries :
        /\ body[d] = MixedBody
        /\ Done(d)
        /\ \E k1, k2 \in StepsOf(d) :
              /\ k1 < k2
              /\ trace[d][k1].op = "reply"
              /\ trace[d][k2].op = "update_message_status"

\* C10: send_buttons with more than three buttons raises without a POST;
\* with one, two or three it POSTs once, and the buttons of the payload are
\* as many as given, with the ids and titles given, in that order.
C10_ButtonLimit ==
    call.fn = "send_buttons" =>
        LET n == Len(call.buttons)
            posts == call.result.posts
        IN  /\ n > 3 => call.result.raised /\ posts = <<>>
            /\ n \in 1..3 =>
                  /\ Len(posts) = 1
                  /\ LET sent == posts[1].payload.interactive.action.buttons
                     IN  /\ Len(sent) = n
                         /\ \A i \in 1..n :
                               /\ sent[i].reply.id = call.buttons[i].id
                               /\ sent[i].reply.title = call.buttons[i].title

\* C10 witness: send_buttons was called with four buttons.
C10_Witness ==
    /\ call.fn = "send_buttons"
    /\ Len(call.buttons) = 4
    /\ call.result.raised
    /\ call.result.posts = <<>>

\* C11: send_buttons called with an empty button list raises before any
\* transport attempt: it issues no POST.
C11_EmptyButtonsRejected ==
    call.fn = "send_buttons" /\ Len(call.buttons) = 0 =>
        /\ call.result.raised
        /\ call.result.posts = <<>>

\* a URL or a media id that names something: given and not empty
Names(x) == x # PyNone /\ x # ""
\* the media object of the payload POSTed by the last call
MediaOf(c) ==
    IF c.fn = "send_image" THEN c.result.posts[1].payload.image
    ELSE c.result.posts[1].payload.document

\* C12: send_image and send_document with neither a URL nor a media id raise
\* without a POST; with at least one of them the payload is built and POSTed
\* once, and it carries the URL as link, without id, whenever a URL is
\* given, and the media id otherwise.
C12_MediaReference ==
    call.fn \in {"send_image", "send_document"} =>
        LET has_url == Names(call.media_url)
            has_id == Names(call.media_id)
            r == call.result
        IN  /\ ~has_url /\ ~has_id => r.raised /\ r.posts = <<>>
            /\ has_url \/ has_id =>
                  /\ Len(r.posts) = 1
                  /\ r.raised <=> r.posts[1].outcome # "ok"
                  /\ r.posts[1].payload.to = call.to
            /\ has_url =>
                  /\ "link" \in DOMAIN MediaOf(call)
                  /\ MediaOf(call).link = call.media_url
                  /\ "id" \notin DOMAIN MediaOf(call)
            /\ ~has_url /\ has_id =>
                  /\ "id" \in DOMAIN MediaOf(call)
                  /\ MediaOf(call).id = call.media_id
                  /\ "link" \notin DOMAIN MediaOf(call)

\* C12 witness: send_document was called with a URL and a media id and its
\* POST, which carries the link, was accepted.
C12_Witness ==
    /\ call.fn = "send_document"
    /\ Names(call.media_url) /\ Names(call.media_id)
    /\ ~call.result.raised
    /\ MediaOf(call).link = call.media_url

\* the direct calls of the service's send methods
SendFns ==
    {"send_text_message", "send_image", "send_document", "send_buttons",
     "send_list", "send_template", "mark_as_read"}
\* those whose builder rejects nothing
UncheckedSendFns ==
    {"send_text_message", "send_list", "send_template", "mark_as_read"}

\* C13: a send call POSTs at most once, and exactly once when its builder
\* rejects nothing; when the provider answers with a status that is not 200,
\* with a body that is no JSON, or not at all, the call raises to its caller
\* with that one POST made.
C13_SinglePost ==
    call.fn \in SendFns =>
        LET r == call.result
        IN  /\ Len(r.posts) <= 1
            /\ call.fn \in UncheckedSendFns => Len(r.posts) = 1
            /\ \A k \in 1..Len(r.posts) :
                  r.posts[k].outcome \in {"rejected", "malformed", "network"}
                      => r.raised /\ Len(r.posts) = 1
            /\ r.raised /\ r.posts # <<>> => r.posts[1].outcome # "ok"

\* C13 witness: a send_template call whose POST met a network failure has
\* raised after that one POST.
C13_Witness ==
    /\ call.fn = "send_template"
    /\ call.result.raised
    /\ Len(call.result.posts) = 1
    /\ call.result.posts[1].outcome = "network"

\* the body as the claims describe it: without the whitespace around it and
\* in lower case
CaseFold ==
    [A |-> "a", B |-> "b", C |-> "c", D |-> "d", E |-> "e", F |-> "f",
     G |-> "g", H |-> "h", I |-> "i", J |-> "j", K |-> "k", L |-> "l",
     M |-> "m", N |-> "n", O |-> "o", P |-> "p", Q |-> "q", R |-> "r",
     S |-> "s", T |-> "t", U |-> "u", V |-> "v", W |-> "w", X |-> "x",
     Y |-> "y", Z |-> "z"]
Trimmed(chars) ==
    LET inked == {i \in 1..Len(chars) : chars[i] \notin {" ", "\t", "\n", "\r"}}
    IN  IF inked = {} THEN <<>>
        ELSE SubSeq(chars,
                    CHOOSE i \in inked : \A j \in inked : i <= j,
                    CHOOSE i \in inked : \A j \in inked : i >= j)
Normalised(chars) ==
    LET t == Trimmed(chars)
    IN  [i \in 1..Len(t) |->
            IF t[i] \in DOMAIN CaseFold THEN CaseFold[t[i]] ELSE t[i]]
\* the branch the command set assigns to a normalised body
CommandBranch(n) ==
    CASE n \in {S_hello, S_hi, S_hey} -> "greeting"
      [] n = S_help -> "help"
      [] n = S_menu -> "menu"
      [] n = S_buttons -> "buttons"
      [] n = S_info -> "info"
      [] OTHER -> "echo"
\* the branch of handle_text_message an intent comes from
BranchOf(intent) ==
    CASE intent.kind = "text" -> intent.message.fmt
      [] intent.kind = "list" -> "menu"
      [] intent.kind = "buttons" -> "buttons"
      [] OTHER -> "none"

\* C14: the branch handle_text_message takes is the one the command set
\* assigns to the trimmed, lower-cased body (so bodies that are equal after
\* trimming and lower-casing take the same branch): greeting for hello, hi
\* and hey, the command's own branch for help, menu, buttons and info, echo
\* for everything else; and the handler makes exactly one send.
C14_TextRouting ==
    call.fn = "handle_text_message" =>
        /\ BranchOf(call.intent) = CommandBranch(Normalised(call.text))
        /\ \A other \in NamedTexts :
              Normalised(other) = Normalised(call.text) =>
                  BranchOf(HandleText(TextMessage(S_m1, other), JStr(S_u1)))
                      = BranchOf(call.intent)
        /\ Len(call.result.posts) = 1
        /\ call.result.posts[1].payload.to = JStr(S_u1)

\* C14 witness: the body " Hello  " took the greeting branch and one text
\* was sent.
C14_Witness ==
    /\ call.fn = "handle_text_message"
    /\ call.text = <<" ", "H", "e", "l", "l", "o", " ", " ">>
    /\ BranchOf(call.intent) = "greeting"
    /\ Len(call.result.posts) = 1

\* the handling of event i of delivery d is over
EventOver(d, i) == pc[d].i > i \/ (pc[d].i = i /\ Done(d))
\* event i of delivery d has a step of the given op
HasStep(d, i, op) ==
    \E k \in StepsOf(d) : trace[d][k].ev = i /\ trace[d][k].op = op

\* C15: when the mark-as-read POST of a message failed, save_message has
\* still been called for that message and, when its type has a handler that
\* replies, the handler's send has still been made.
C15_ReadReceiptFireAndForget ==
    \A d \in Deliveries :
        \A k \in StepsOf(d) :
            LET i == trace[d][k].ev
            IN  (/\ trace[d][k].op = "mark_as_read"
                 /\ trace[d][k].result # "ok"
                 /\ EventOver(d, i))
                => /\ HasStep(d, i, "save_message")
                   /\ Dispatch(Plan(d).events[i].obj).kind
                          \in {"text", "list", "buttons"}
                      => HasStep(d, i, "reply")

\* the value of "type" each send method's payload carries
TypeOfFn ==
    [send_text_message |-> "text", send_image |-> "image",
     send_document |-> "document", send_buttons |-> "interactive",
     send_list |-> "interactive", send_template |-> "template"]
\* payload carries the four envelope fields, addressed to `to`
HasEnvelope(payload, to) ==
    /\ {"messaging_product", "recipient_type", "to", "type"}
            \subseteq DOMAIN payload
    /\ payload.messaging_product = "whatsapp"
    /\ payload.recipient_type = "individual"
    /\ payload.to = to

\* C16 as stated: the payload of every send method, mark_as_read included,
\* carries messaging_product "whatsapp", recipient_type "individual", to
\* and type.
C16_EnvelopeAsStated ==
    call.fn \in SendFns =>
        \A k \in 1..Len(call.result.posts) :
            LET payload == call.result.posts[k].payload
            IN  /\ "messaging_product" \in DOMAIN payload
                /\ payload.messaging_product = "whatsapp"
                /\ "recipient_type" \in DOMAIN payload
                /\ payload.recipient_type = "individual"
                /\ "to" \in DOMAIN payload
                /\ "type" \in DOMAIN payload

\* C16 as amended: the payloads of send_text_message, send_image,
\* send_document, send_buttons, send_list and send_template carry
\* messaging_product "whatsapp", recipient_type "individual", the recipient
\* as to and their type; the payload of mark_as_read carries
\* messaging_product "whatsapp", status "read" and the message id, and
\* nothing else.
C16_Envelope ==
    call.fn \in SendFns =>
        \A k \in 1..Len(call.result.posts) :
            LET payload == call.result.posts[k].payload
            IN  IF call.fn = "mark_as_read"
                THEN /\ DOMAIN payload
                            = {"messaging_product", "status", "message_id"}
                     /\ payload.messaging_product = "whatsapp"
                     /\ payload.status = "read"
                     /\ payload.message_id = call.message_id
                ELSE /\ HasEnvelope(payload, call.to)
                     /\ payload.type = TypeOfFn[call.fn]

\* C16 witness: mark_as_read has POSTed its read receipt for message m1.
C16_Witness ==
    /\ call.fn = "mark_as_read"
    /\ Len(call.result.posts) = 1
    /\ call.result.posts[1].payload.message_id = JStr(S_m1)
    /\ call.result.posts[1].payload.messaging_product = "whatsapp"

\* how many "=" a header value holds
EqualsSigns(sig) ==
    IF sig.t = "str"
    THEN Cardinality({i \in 1..Len(sig.s) : sig.s[i] = "="})
    ELSE 0

\* C17: verify_signature raises nothing; it returns False for an absent
\* header, an empty one, one without "=", one with more than one "=" and
\* one whose algorithm is not sha256; it returns True exactly when the
\* header is sha256=<digest> with <digest> the HMAC of the raw body under
\* the configured secret.
C17_SignatureCheck ==
    call.fn = "verify_signature" =>
        LET sig == call.signature
            r == call.result
            good == JStr(<<"sha256", "=",
                           HmacSha256Hex(WHATSAPP_API_TOKEN, call.payload)>>)
        IN  /\ ~r.raised
            /\ sig = JNull => ~r.value
            /\ sig = JStr(<<>>) => ~r.value
            /\ EqualsSigns(sig) = 0 => ~r.value
            /\ EqualsSigns(sig) > 1 => ~r.value
            /\ sig.t = "str" /\ sig.s # <<>> /\ sig.s[1] # "sha256" => ~r.value
            /\ r.value <=> sig = good

\* C17 witness: a header with two "=" was rejected without an exception.
C17_Witness ==
    /\ call.fn = "verify_signature"
    /\ call.signature = JStr(<<"sha256", "=", "=", "5f2c">>)
    /\ call.result = [value |-> FALSE, raised |-> FALSE]

\* the message types process_message has a handler for
HandledTypes ==
    {JStr(S_text), JStr(S_image), JStr(S_document), JStr(S_audio),
     JStr(S_video), JStr(S_location), JStr(S_interactive)}
\* event i of delivery d is a message of a type outside HandledTypes
UnknownMessage(d, i) ==
    LET ev == Plan(d).events[i]
    IN  /\ ev.kind = "message"
        /\ IsObj(ev.obj)
        /\ PyGet(ev.obj, "type", JNull) \notin HandledTypes

\* C18: for a message whose type is none of text, image, document, audio,
\* video, location, interactive no reply is ever sent, and when the delivery
\* has been handled to its end every event the router reached behind that
\* message has been processed.
C18_UnknownTypeSkipped ==
    \A d \in Deliveries :
        pc[d].at # "idle" =>
            \A i \in 1..Len(Plan(d).events) :
                UnknownMessage(d, i) =>
                    /\ ~HasStep(d, i, "reply")
                    /\ Done(d) =>
                          \A j \in (i + 1)..Len(Plan(d).events) :
                              EventProcessed(d, j)

\* C18 witness: a sticker message was marked as read and saved, nothing was
\* replied, and the status behind it was then handled.
C18_Witness ==
    \E d \in Deliveries :
        /\ body[d] = StickerBody
        /\ Done(d)
        /\ UnknownMessage(d, 1)
        /\ HasStep(d, 1, "save_message")
        /\ ~HasStep(d, 1, "reply")
        /\ HasStep(d, 2, "update_message_status")

\* C19: the users collection never holds two documents with the same phone
\* number, whatever the interleaving of the save_user calls.
C19_UniquePerPhone ==
    \A p \in Phones : Cardinality(UsersMatching(users, p)) <= 1

\* the items of the messages (m = 0) or statuses (m = 1) list of a value,
\* with their places in the envelope
ListItems(value, name, e, c, m) ==
    IF name \notin DOMAIN value.f \/ value.f[name].t # "list" THEN {}
    ELSE {[key |-> <<e, c, m, n>>, obj |-> value.f[name].items[n]] :
            n \in 1..Len(value.f[name].items)}
ChangeItems(change, e, c) ==
    IF change.t # "obj" \/ "value" \notin DOMAIN change.f
       \/ change.f.value.t # "obj"
    THEN {}
    ELSE ListItems(change.f.value, "messages", e, c, 0)
         \cup ListItems(change.f.value, "statuses", e, c, 1)
EntryItems(entry, e) ==
    IF entry.t # "obj" \/ "changes" \notin DOMAIN entry.f
       \/ entry.f.changes.t # "list"
    THEN {}
    ELSE UNION {ChangeItems(entry.f.changes.items[c], e, c) :
                    c \in 1..Len(entry.f.changes.items)}
\* every item of a messages or statuses list anywhere in body b
DeepItems(b) ==
    IF b.t # "obj" \/ "entry" \notin DOMAIN b.f \/ b.f.entry.t # "list"
    THEN {}
    ELSE UNION {EntryItems(b.f.entry.items[e], e) :
                    e \in 1..Len(b.f.entry.items)}

\* the places where the structure of the envelope is broken: a change that
\* is no object, a value that is no object, a messages or statuses that is
\* no list ...
ChangeFlaws(change, e, c) ==
    IF change.t # "obj" THEN {<<e, c, 0, 0>>}
    ELSE IF "value" \notin DOMAIN change.f THEN {}
    ELSE IF change.f.value.t # "obj" THEN {<<e, c, 0, 0>>}
    ELSE LET value == change.f.value
         IN  (IF "messages" \in DOMAIN value.f /\ value.f.messages.t # "list"
              THEN {<<e, c, 0, 0>>} ELSE {})
             \cup
             (IF "statuses" \in DOMAIN value.f /\ value.f.statuses.t # "list"
              THEN {<<e, c, 1, 0>>} ELSE {})
\* ... an entry that is no object, a changes that is no list ...
EntryFlaws(entry, e) ==
    IF entry.t # "obj" THEN {<<e, 0, 0, 0>>}
    ELSE IF "changes" \notin DOMAIN entry.f THEN {}
    ELSE IF entry.f.changes.t # "list" THEN {<<e, 0, 0, 0>>}
    ELSE UNION {ChangeFlaws(entry.f.changes.items[c], e, c) :
                    c \in 1..Len(entry.f.changes.items)}
\* ... a body that is no object, an entry that is no list
Flaws(b) ==
    IF b.t # "obj" THEN {<<0, 0, 0, 0>>}
    ELSE IF "entry" \notin DOMAIN b.f THEN {}
    ELSE IF b.f.entry.t # "list" THEN {<<0, 0, 0, 0>>}
    ELSE UNION {EntryFlaws(b.f.entry.items[e], e) :
                    e \in 1..Len(b.f.entry.items)}
FirstFlaw(b) == CHOOSE f \in Flaws(b) : \A g \in Flaws(b) : f = g \/ KeyLess(f, g)
\* entry is a list of objects, changes a list of objects, value an object,
\* messages and statuses lists of objects
WellFormed(b) ==
    /\ Flaws(b) = {}
    /\ \A it \in DeepItems(b) : it.obj.t = "obj"
\* the places in the envelope of the events delivery d has processed
ProcessedKeys(d) == {Plan(d).events[trace[d][k].ev].key : k \in StepsOf(d)}

\* C20: a delivery with a well-formed envelope that has been handled to its
\* end is answered {"status": "ok"}, whichever calls failed; a delivery is
\* answered {"status": "error"} only when its body is no JSON or its
\* envelope is malformed, and then no item behind the first malformed place
\* has been processed.
C20_ResponseBody ==
    \A d \in Deliveries :
        Done(d) =>
            /\ WellFormed(body[d]) => resp[d] = OkResponse
            /\ resp[d].status = "error" =>
                  /\ body[d] = JInvalid \/ Flaws(body[d]) # {}
                  /\ \A it \in DeepItems(body[d]) :
                        KeyLess(FirstFlaw(body[d]), it.key)
                            => it.key \notin ProcessedKeys(d)

\* C20 witness: one delivery with a well-formed envelope was answered ok
\* although a call failed, and one whose envelope has "statuses": null
\* behind a message was answered error with that message processed and the
\* message of the next change not.
C20_Witness ==
    \E d, e \in Deliveries :
        /\ Done(d) /\ WellFormed(body[d]) /\ body[d] = TwoEntryBody
        /\ Failed(d) /\ resp[d] = OkResponse
        /\ Done(e) /\ body[e] = BrokenBody /\ resp[e] = ErrorResponse
        /\ <<1, 1, 0, 1>> \in ProcessedKeys(e)
        /\ <<1, 2, 0, 1>> \in {it.key : it \in DeepItems(body[e])}
        /\ <<1, 2, 0, 1>> \notin ProcessedKeys(e)

\* the steps of event i of delivery d that are calls of op
StepsWith(d, i, op) ==
    {k \in StepsOf(d) : trace[d][k].ev = i /\ trace[d][k].op = op}
\* the store holds the document a save_message step wrote: same message id,
\* same message, same created_at (a status update may have touched the rest)
StillStored(doc) ==
    \E k \in 1..Len(messages) :
        /\ messages[k].message_id = doc.message_id
        /\ messages[k].data = doc.data
        /\ messages[k].created_at = doc.created_at

\* C21: in the handling of one message by one delivery the calls come in
\* the order mark_as_read, save_message, reply, each at most once;
\* save_message is called only after mark_as_read returned and the reply
\* is sent only after save_message returned, so none is sent when
\* save_message raised; a failed reply leaves the saved document in the
\* store; and the message causes at most two POSTs.
C21_StepOrder ==
    \A d \in Deliveries :
        \A i \in {trace[d][k].ev : k \in StepsOf(d)} :
            LET marks == StepsWith(d, i, "mark_as_read")
                saves == StepsWith(d, i, "save_message")
                replies == StepsWith(d, i, "reply")
            IN  /\ Cardinality(marks) <= 1
                /\ Cardinality(saves) <= 1
                /\ Cardinality(replies) <= 1
                /\ Cardinality({k \in StepsOf(d) :
                        trace[d][k].ev = i /\ IsPost(trace[d][k])}) <= 2
                /\ \A s \in saves :
                      \E m \in marks : m < s /\ trace[d][m].result = "ok"
                /\ \A r \in replies :
                      /\ \E s \in saves : s < r /\ trace[d][s].result = "ok"
                      /\ trace[d][r].result # "ok" =>
                            \A s \in saves : StillStored(trace[d][s].data)
                /\ (\E s \in saves : trace[d][s].result = "raise")
                      => replies = {}

\* C21 witness: a message was marked as read and saved, its reply failed,
\* and the saved document is in the store; another message's save raised
\* and nothing was replied to it.
C21_Witness ==
    \E d, e \in Deliveries :
        /\ \E r \in StepsOf(d) :
              /\ trace[d][r].op = "reply"
              /\ trace[d][r].result = "network"
              /\ \E s \in StepsWith(d, trace[d][r].ev, "save_message") :
                    s < r /\ StillStored(trace[d][s].data)
              /\ StepsWith(d, trace[d][r].ev, "mark_as_read") # {}
        /\ Done(e)
        /\ \E s \in StepsOf(e) :
              /\ trace[e][s].op = "save_message"
              /\ trace[e][s].result = "raise"
              /\ StepsWith(e, trace[e][s].ev, "reply") = {}

====
